---- MODULE Spec2Model ----
(***************************************************************************)
(* Model of the radiative-transfer routines of pyrtlib                      *)
(* (src/pyrap/rte.py, class RTEquation) and of its absorption models       *)
(* (src/pyrtlib/absmodel.py).                                              *)
(*                                                                         *)
(* The routines keep no state of their own, so the state of the model is   *)
(* the state of one call: the routine, its arguments, its local variables  *)
(* and its outcome (a returned value, or the exception that left the       *)
(* routine), plus whether warnings.warn was called.  What outlives a call  *)
(* is the "model" attribute of the absorption classes and of an instance,  *)
(* and the line tables attached to the classes.                            *)
(*                                                                         *)
(* Python containers are modelled with Python's own indexing: a sequence   *)
(* of length n is a function on 0..n-1, and reading or writing an index    *)
(* outside it raises IndexError.                                           *)
(*                                                                         *)
(* Numbers are fixed-point integers; the unit of every quantity is stated  *)
(* where the quantity is introduced.                                       *)
(***************************************************************************)
EXTENDS Integers, Sequences, FiniteSets, TLC

VARIABLES pc, routine, args, locals, outcome, warned,
          clsModel, instModel, llLoaded, lastAssigned, nassign

vars == <<pc, routine, args, locals, outcome, warned,
          clsModel, instModel, llLoaded, lastAssigned, nassign>>

\* the state of the absorption classes
absState == <<clsModel, instModel, llLoaded, lastAssigned, nassign>>

(***************************************************************************)
(* Bounds of the model.                                                    *)
(***************************************************************************)
\* longest profile (number of levels) passed to a routine
MaxLen == 3

\* number of assignments to a "model" attribute explored in one run
MaxAssign == 2

(***************************************************************************)
(* Python containers.                                                      *)
(***************************************************************************)
\* the Python sequences of length n over the values S
PyArr(n, S) == [0..(n - 1) -> S]

\* len(a)
PyLen(a) == Cardinality(DOMAIN a)

\* a[i] does not raise IndexError (indices used by the routines are >= 0)
InRange(a, i) == i \in DOMAIN a

\* np.zeros(a.shape)
Zeros(a) == [k \in DOMAIN a |-> 0]

\* utils.arange(start, stop): the MATLAB-like range start..stop, stop included
arange(start, stop) == start..stop

Abs(v) == IF v < 0 THEN -v ELSE v

(***************************************************************************)
(* Outcomes of a call.                                                     *)
(***************************************************************************)
Pending == [kind |-> "pending", value |-> <<>>, exc |-> "none", line |-> 0]

\* "return v" at the given source line
Returned(v, ln) == [kind |-> "returned", value |-> v, exc |-> "none", line |-> ln]

\* a bare "return": the caller receives None
ReturnedNone(ln) == [kind |-> "returned_none", value |-> <<>>, exc |-> "none", line |-> ln]

\* an exception leaves the routine at the given source line
Raised(e, ln) == [kind |-> "raised", value |-> <<>>, exc |-> e, line |-> ln]

(***************************************************************************)
(* exp_int_xxx (rte.py 232-275).                                           *)
(* x is in units of 2.5e-10, so that the threshold 1e-09 of line 259 is 4; *)
(* the inputs are even, which keeps the arithmetic mean of line 265 exact. *)
(* ds is in km, factor is a plain number.                                  *)
(***************************************************************************)
\* the threshold 1e-09 of line 259, in units of 2.5e-10
NearEqualEps == 4

\* values of x: negative, zero, within 1e-09 of zero, far from the others
XVals == {-4, 0, 2, 8}

DsVals == {1, 3}

FactorVals == {1, 10}

ZeroFlgVals == {0, 1}

\* LayerBranch with the test of x[i] < 0.0 left out of line 255
LayerBranch_prev_only(xprev, xcur) ==
    IF xprev < 0 THEN "negative"
    ELSE IF Abs(xcur - xprev) < NearEqualEps THEN "near_equal"
    ELSE IF (xprev = 0) \/ (xcur = 0) THEN "zero"
    ELSE "log_mean"

\* the branch of the if/elif chain of lines 255-268 taken for one layer
LayerBranch(xprev, xcur) ==
    IF (xprev < 0) \/ (xcur < 0) THEN "negative"
    ELSE IF Abs(xcur - xprev) < NearEqualEps THEN "near_equal"
    ELSE IF (xprev = 0) \/ (xcur = 0) THEN "zero"
    ELSE "log_mean"

\* ZeroLayer with the flag ignored: always the mean
ZeroLayer_always_mean(zeroflg, xprev, xcur) == (xcur + xprev) \div 2

\* ZeroLayer with the sense of the flag inverted
ZeroLayer_flag_inverted(zeroflg, xprev, xcur) ==
    IF zeroflg = 0 THEN (xcur + xprev) \div 2 ELSE 0

\* the layer value of the zero branch, lines 262-265
ZeroLayer(zeroflg, xprev, xcur) ==
    IF zeroflg = 0 THEN 0 ELSE (xcur + xprev) \div 2

\* xlayer of the branches that assign it (lines 260-265)
XLayer(zeroflg, xprev, xcur) ==
    IF LayerBranch(xprev, xcur) = "near_equal" THEN xcur
    ELSE ZeroLayer(zeroflg, xprev, xcur)

\* the value handed back when a negative endpoint is met, line 257
AbortValue(sxds, xds, factor) == <<sxds, xds>>

\* variant: the sum is handed back as accumulated, factor not applied
FinalValue_unscaled(sxds, xds, factor) == <<sxds, xds>>

\* the value handed back after the loop, lines 273-275
FinalValue(sxds, xds, factor) == <<sxds * factor, xds>>

\* lines 251-252 and the first value of the loop variable of line 253
exp_int_call(zeroflg, x, ds, ibeg, iend, factor) ==
    /\ pc' = "exp_int_loop"
    /\ routine' = "exp_int_xxx"
    /\ args' = [zeroflg |-> zeroflg, x |-> x, ds |-> ds,
                ibeg |-> ibeg, iend |-> iend, factor |-> factor]
    /\ locals' = [sxds |-> 0, xds |-> Zeros(ds), i |-> ibeg + 1]
    /\ outcome' = Pending
    /\ warned' = FALSE

\* one iteration of the loop of lines 253-271
exp_int_layer ==
    /\ pc = "exp_int_loop"
    /\ locals.i \in arange(args.ibeg + 1, args.iend)
    /\ LET i == locals.i
           x == args.x
       IN  IF ~InRange(x, i - 1) \/ ~InRange(x, i)
           THEN \* x[i - 1] or x[i] of line 255 is out of range
                /\ pc' = "done"
                /\ outcome' = Raised("IndexError", 255)
                /\ UNCHANGED <<locals, warned>>
           ELSE LET br == LayerBranch(x[i - 1], x[i])
                IN  CASE br = "negative" ->
                           /\ pc' = "done"
                           /\ warned' = TRUE
                           /\ outcome' = Returned(AbortValue(locals.sxds, locals.xds, args.factor), 257)
                           /\ UNCHANGED locals
                      [] br = "log_mean" ->
                           \* x(i): the profile is called like a function
                           /\ pc' = "done"
                           /\ outcome' = Raised("TypeError", 268)
                           /\ UNCHANGED <<locals, warned>>
                      [] OTHER ->
                           IF ~InRange(args.ds, i)
                           THEN /\ pc' = "done"
                                /\ outcome' = Raised("IndexError", 270)
                                /\ UNCHANGED <<locals, warned>>
                           ELSE LET v == XLayer(args.zeroflg, x[i - 1], x[i]) * args.ds[i]
                                IN  /\ locals' = [sxds |-> locals.sxds + v,
                                                  xds |-> [locals.xds EXCEPT ![i] = v],
                                                  i |-> i + 1]
                                    /\ UNCHANGED <<pc, outcome, warned>>
    /\ UNCHANGED <<routine, args>>
    /\ UNCHANGED absState

\* the loop is exhausted: lines 273-275
exp_int_return ==
    /\ pc = "exp_int_loop"
    /\ locals.i \notin arange(args.ibeg + 1, args.iend)
    /\ pc' = "done"
    /\ outcome' = Returned(FinalValue(locals.sxds, locals.xds, args.factor), 275)
    /\ UNCHANGED <<routine, args, locals, warned>>
    /\ UNCHANGED absState

\* the calls of exp_int_xxx explored: profiles of 2..MaxLen levels, ranges
\* that start at level 0 or 1 and end at most one level past the profile
exp_int_calls ==
    /\ pc = "idle"
    /\ UNCHANGED absState
    /\ \E n \in 2..MaxLen :
         \E x \in PyArr(n, XVals), ds \in PyArr(n, DsVals) :
           \E zeroflg \in ZeroFlgVals, factor \in FactorVals :
             \E ibeg \in 0..1 :
               \E iend \in ibeg..n :
                 exp_int_call(zeroflg, x, ds, ibeg, iend, factor)

(***************************************************************************)
(* Properties of exp_int_xxx.                                              *)
(***************************************************************************)
InExpInt == routine = "exp_int_xxx"

\* the layers of the integration range
RangeLayers == arange(args.ibeg + 1, args.iend)

\* the layers the loop has completed (xds[k] and sxds are updated)
DoneLayers == {k \in RangeLayers : k < locals.i}

\* both endpoints of layer k are non-negative and at least one is exactly 0
ZeroEndpoint(k) ==
    /\ args.x[k - 1] >= 0
    /\ args.x[k] >= 0
    /\ (args.x[k - 1] = 0 \/ args.x[k] = 0)

\* the endpoints of layer k are within 1e-09 of each other
NearEqual(k) == Abs(args.x[k] - args.x[k - 1]) < NearEqualEps

\* C2 as stated: with zeroflg = 0 every completed layer with non-negative
\* endpoints, one of them exactly 0, contributes xds[i] = 0, whatever the
\* other endpoint.
C2_AsStated ==
    (InExpInt /\ args.zeroflg = 0) =>
        \A k \in DoneLayers : ZeroEndpoint(k) => locals.xds[k] = 0

\* C2 (amended): with zeroflg = 0 a completed layer with non-negative
\* endpoints, one of them exactly 0, contributes xds[i] = 0 when the endpoints
\* differ by at least 1e-09; when they differ by less, the near-equal branch
\* comes first and the layer contributes x[i] * ds[i].
C2_ZeroFlagOff ==
    (InExpInt /\ args.zeroflg = 0) =>
        \A k \in DoneLayers : ZeroEndpoint(k) =>
            IF NearEqual(k) THEN locals.xds[k] = args.x[k] * args.ds[k]
                            ELSE locals.xds[k] = 0

\* a completed layer (0, 2e-09) of path length 3 under zeroflg = 0
C2_Witness ==
    /\ InExpInt
    /\ args.zeroflg = 0
    /\ \E k \in DoneLayers :
          /\ args.x[k - 1] = 0
          /\ args.x[k] = 8
          /\ args.ds[k] = 3
          /\ locals.xds[k] = 0

\* C3 as stated: with zeroflg = 1 every completed layer with non-negative
\* endpoints, one of them exactly 0, has xds[i] = ((x[i] + x[i-1]) / 2) * ds[i],
\* whatever the other endpoint.
C3_AsStated ==
    (InExpInt /\ args.zeroflg = 1) =>
        \A k \in DoneLayers : ZeroEndpoint(k) =>
            locals.xds[k] = ((args.x[k] + args.x[k - 1]) \div 2) * args.ds[k]

\* C3 (amended): with zeroflg = 1 a completed layer with non-negative
\* endpoints, one of them exactly 0, has xds[i] = ((x[i] + x[i-1]) / 2) * ds[i]
\* when the endpoints differ by at least 1e-09; when they differ by less the
\* layer value is x[i], not the mean.
C3_ZeroFlagOn ==
    (InExpInt /\ args.zeroflg = 1) =>
        \A k \in DoneLayers : ZeroEndpoint(k) =>
            IF NearEqual(k)
            THEN locals.xds[k] = args.x[k] * args.ds[k]
            ELSE locals.xds[k] = ((args.x[k] + args.x[k - 1]) \div 2) * args.ds[k]

\* a completed layer (2e-09, 0) of path length 3 under zeroflg = 1, value 1e-09 * 3
C3_Witness ==
    /\ InExpInt
    /\ args.zeroflg = 1
    /\ \E k \in DoneLayers :
          /\ args.x[k - 1] = 8
          /\ args.x[k] = 0
          /\ args.ds[k] = 3
          /\ locals.xds[k] = 12

\* the layers of the range, with both endpoints inside x, that have a
\* negative endpoint
NegLayers ==
    {k \in RangeLayers : /\ InRange(args.x, k - 1)
                         /\ InRange(args.x, k)
                         /\ (args.x[k - 1] < 0 \/ args.x[k] < 0)}

FirstNegLayer == CHOOSE k \in NegLayers : \A j \in NegLayers : k <= j

RECURSIVE SumOver(_, _)
\* the sum of f[k] over the indices k of S
SumOver(f, S) ==
    IF S = {} THEN 0
    ELSE LET k == CHOOSE j \in S : TRUE
         IN  f[k] + SumOver(f, S \ {k})

\* C4: the loop never goes past the first layer with a negative endpoint,
\* and a call that has stopped there has returned (not raised) the pair
\* (partial sum, xds), where xds holds the integrals of the layers before it,
\* 0 for that layer and every later one, and the sum is the sum of the
\* earlier layers' integrals.
C4_AbortPartial ==
    (InExpInt /\ NegLayers # {}) =>
        /\ locals.i <= FirstNegLayer
        /\ (pc = "done" /\ locals.i = FirstNegLayer) =>
              /\ outcome.kind = "returned"
              /\ warned
              /\ outcome.value[2] = locals.xds
              /\ \A k \in DOMAIN outcome.value[2] :
                    k >= FirstNegLayer => outcome.value[2][k] = 0
              /\ outcome.value[1] =
                    SumOver(outcome.value[2], {k \in RangeLayers : k < FirstNegLayer})

\* an abort after a layer with a non-zero integral, under a factor that is not 1
C4_Witness ==
    /\ InExpInt
    /\ pc = "done"
    /\ outcome.kind = "returned"
    /\ outcome.line = 257
    /\ args.factor = 10
    /\ outcome.value[1] > 0
    /\ NegLayers # {}
    /\ locals.i = FirstNegLayer

\* the call stands at layer k of the range with both endpoints inside x
AtLayer(k) ==
    /\ locals.i = k
    /\ k \in RangeLayers
    /\ InRange(args.x, k - 1)
    /\ InRange(args.x, k)

OutsideRangeZero(xds) == \A k \in DOMAIN xds : k \notin RangeLayers => xds[k] = 0

\* C28 as stated: on every return path the returned scalar is factor times
\* the sum of the entries of the returned xds, and the entries of xds outside
\* ibeg+1..iend are 0.
C28_AsStated ==
    (InExpInt /\ pc = "done" /\ outcome.kind = "returned") =>
        /\ outcome.value[1] =
              args.factor * SumOver(outcome.value[2], DOMAIN outcome.value[2])
        /\ OutsideRangeZero(outcome.value[2])

\* C28 amended: after the last layer the returned scalar is factor times the
\* sum of the entries of xds; on the abort at a negative endpoint it is that
\* sum itself, factor not applied; on both paths the entries of xds outside
\* ibeg+1..iend are 0.
C28_SumOfLayers ==
    (InExpInt /\ pc = "done" /\ outcome.kind = "returned") =>
        /\ outcome.value[1] =
              (IF outcome.line = 275 THEN args.factor ELSE 1)
                 * SumOver(outcome.value[2], DOMAIN outcome.value[2])
        /\ OutsideRangeZero(outcome.value[2])

\* a completed call over a range that starts above level 0, with a factor
\* that is not 1 and a non-zero sum
C28_Witness ==
    /\ InExpInt
    /\ pc = "done"
    /\ outcome.kind = "returned"
    /\ outcome.line = 275
    /\ args.ibeg = 1
    /\ args.factor = 10
    /\ outcome.value[1] = 10 * SumOver(outcome.value[2], DOMAIN outcome.value[2])
    /\ outcome.value[1] > 0

(***************************************************************************)
(* refract_xxx (rte.py 94-139).                                            *)
(* p and e are in mb, tk in K; refractivities are in N-units and the       *)
(* refractive index in units of 1e-06.                                     *)
(***************************************************************************)
\* the refractive index 1.0, in units of 1e-06 (line 133)
RefindxOne == 1000000

PVals == {500, 1000}

TkVals == {250, 300}

EVals == {0, 10}

\* lines 135-139: wetn is rebound to the dry list, then dryn is rebound to
\* what wetn now names; the tuple handed back is (dryn, wetn, refindx)
RefractReturn(dryn, wetn, refindx) ==
    LET wetn1 == dryn
        dryn1 == wetn1
    IN  <<dryn1, wetn1, refindx>>

\* the whole routine: wetn, dryn and refindx start as empty lists (117-119),
\* so the first iteration of the loop of line 121 ends in the store
\* "wetn[i] = ..." of line 131 into an empty list, unless reading level i = 1
\* of a one-level profile has failed before (line 123)
refract_xxx(p, tk, e) ==
    LET nl == PyLen(p)
    IN  IF arange(1, nl) = {} THEN Returned(RefractReturn(<<>>, <<>>, <<>>), 139)
        ELSE IF ~InRange(p, 1) \/ ~InRange(e, 1) THEN Raised("IndexError", 123)
        ELSE IF ~InRange(tk, 1) THEN Raised("IndexError", 124)
        ELSE Raised("IndexError", 131)

refract_call(p, tk, e) ==
    /\ pc' = "done"
    /\ routine' = "refract_xxx"
    /\ args' = [p |-> p, tk |-> tk, e |-> e]
    /\ locals' = <<>>
    /\ outcome' = refract_xxx(p, tk, e)
    /\ warned' = FALSE

\* the calls of refract_xxx explored: profiles of 0..MaxLen levels
refract_calls ==
    /\ pc = "idle"
    /\ UNCHANGED absState
    /\ \E n \in 0..MaxLen :
         \E p \in PyArr(n, PVals), tk \in PyArr(n, TkVals), e \in PyArr(n, EVals) :
           refract_call(p, tk, e)

\* C1: every call of refract_xxx returns three profiles with one entry per
\* level, and at every level refindx[i] = 1 + (dryn[i] + wetn[i]) * 1e-06.
C1_RefindxFormula ==
    (routine = "refract_xxx" /\ pc = "done") =>
        /\ outcome.kind = "returned"
        /\ LET dryn == outcome.value[1]
               wetn == outcome.value[2]
               refindx == outcome.value[3]
           IN  /\ PyLen(refindx) = PyLen(args.p)
               /\ PyLen(dryn) = PyLen(args.p)
               /\ PyLen(wetn) = PyLen(args.p)
               /\ \A i \in DOMAIN refindx :
                     refindx[i] = RefindxOne + dryn[i] + wetn[i]

(***************************************************************************)
(* ray_trac_xxx (rte.py 142-229).                                          *)
(* z and z0 are in km, angle in whole degrees; a refractive index n is     *)
(* held as (n - 1) in units of 1e-03, so that "refindx[i] < 1" is "< 0".   *)
(***************************************************************************)
\* constants('EarthRadius'), km
EarthRadius == 6371

\* the scale of the cosine table
CosScale == 100

\* the scale of the refractive index: n = 1 + refindx / RefScale
RefScale == 1000

AngleVals == {-90, -1, 0, 45, 90, 92}

\* np.cos(angle * deg2rad), times CosScale, for the angles explored
Cos100(angle) ==
    CASE angle = 0 -> 100
      [] angle = -1 -> 100
      [] angle = 45 -> 71
      [] angle = 90 -> 0
      [] angle = -90 -> 0
      [] angle = 92 -> -3

RefVals == {-1, 0, 3}

Z0Vals == {0, 1}

\* height profiles of n levels: level k at k * dz km
ZProfiles(n) == {[k \in 0..(n - 1) |-> k * dz] : dz \in {1, 2}}

\* np.logical_and of two numbers
LogicalAnd(a, b) == (a # 0) /\ (b # 0)

\* a boolean compared with a number counts as 1 or 0
BoolNum(b) == IF b THEN 1 ELSE 0

\* the condition of line 172.  "angle >= X <= 91" is a chained comparison:
\* (angle >= X) and (X <= 91), with X = np.logical_and(89, angle); likewise
\* for the second operand with -91 and -89
NearVertical(angle) ==
    LET X == BoolNum(LogicalAnd(89, angle))
        Y == BoolNum(LogicalAnd(-91, angle))
    IN  \/ (angle >= X) /\ (X <= 91)
        \/ (angle >= Y) /\ (Y <= -89)

\* the levels at which the loop of lines 166-169 stops: the read of
\* refindx[i] fails, or refindx[i] < 1
CheckStops(nl, refindx) ==
    {i \in arange(1, nl) : ~InRange(refindx, i) \/ refindx[i] < 0}

\* the sign of argth of line 198 at layer i.  With a0 = 2 sin^2(theta0 / 2)
\* = 1 - cos(theta0), argth = 0.5 * (a0 + argdth) / r has the sign of
\* (a0 + argdth) * CosScale * rs * (RefScale + refindx[i]), r and rs being
\* positive
ArgthSign(z, refindx, angle, z0, i) ==
    LET rs == EarthRadius + z[1] + z0
        c == Cos100(angle)
        ni == RefScale + refindx[i]
    IN  (CosScale - c) * rs * ni + z[i] * CosScale * ni
          - (refindx[1] - refindx[i]) * c * rs

\* the whole routine.  ds starts as the empty list of line 162; the stores
\* "ds[1] = 0.0" of lines 173 and 185 are the first statements that touch it
ray_trac_xxx(z, refindx, angle, z0) ==
    LET nl == PyLen(z)
        stops == CheckStops(nl, refindx)
        first == CHOOSE i \in stops : \A j \in stops : i <= j
    IN  IF stops # {}
        THEN IF ~InRange(refindx, first) THEN Raised("IndexError", 167)
             ELSE ReturnedNone(169)
        ELSE IF NearVertical(angle) THEN Raised("IndexError", 173)
        ELSE IF ~InRange(z, 1) THEN Raised("IndexError", 180)
        ELSE Raised("IndexError", 185)

ray_trac_call(z, refindx, angle, z0) ==
    /\ pc' = "done"
    /\ routine' = "ray_trac_xxx"
    /\ args' = [z |-> z, refindx |-> refindx, angle |-> angle, z0 |-> z0]
    /\ locals' = <<>>
    /\ outcome' = ray_trac_xxx(z, refindx, angle, z0)
    /\ warned' = (ray_trac_xxx(z, refindx, angle, z0).kind = "returned_none")

\* the calls of ray_trac_xxx explored: refindx has one entry per level of z,
\* or one more
ray_trac_calls ==
    /\ pc = "idle"
    /\ UNCHANGED absState
    /\ \E n \in 1..MaxLen :
         \E z \in ZProfiles(n), m \in {n, n + 1} :
           \E refindx \in PyArr(m, RefVals), angle \in AngleVals, z0 \in Z0Vals :
             ray_trac_call(z, refindx, angle, z0)

InRayTrac == routine = "ray_trac_xxx"

\* every entry of the refractive index profile is >= 1
AllRefindxValid == \A i \in DOMAIN args.refindx : args.refindx[i] >= 0

\* the angle is within 1 degree of +90 or of -90
WithinOneOfVertical(angle) ==
    \/ (89 <= angle /\ angle <= 91)
    \/ (-91 <= angle /\ angle <= -89)

\* the layers of lines 191-229 whose argth is <= 0
DuctLayers ==
    {i \in arange(2, PyLen(args.z)) :
        /\ InRange(args.z, i)
        /\ InRange(args.refindx, i)
        /\ ArgthSign(args.z, args.refindx, args.angle, args.z0, i) <= 0}

FirstDuctLayer == CHOOSE i \in DuctLayers : \A j \in DuctLayers : i <= j

\* C5: a call with all refindx >= 1 and an angle within 1 degree of +90 or
\* -90 returns ds with ds[1] = 0 and ds[i] = z[i] - z[i-1] for the layers
\* i >= 2; with an angle outside those intervals it does not enter the
\* vertical branch of line 173.
C5_VerticalShortcut ==
    (InRayTrac /\ pc = "done" /\ AllRefindxValid) =>
        IF WithinOneOfVertical(args.angle)
        THEN /\ outcome.kind = "returned"
             /\ outcome.value[1] = 0
             /\ \A i \in DOMAIN outcome.value :
                   i >= 2 => outcome.value[i] = args.z[i] - args.z[i - 1]
        ELSE outcome.line # 173

\* C6: a call with all refindx >= 1 and no ducting returns a profile with
\* one entry per level of z, the first being 0.
C6_FullProfile ==
    (InRayTrac /\ pc = "done" /\ AllRefindxValid /\ DuctLayers = {}) =>
        /\ outcome.kind = "returned"
        /\ PyLen(outcome.value) = PyLen(args.z)
        /\ \A i \in DOMAIN outcome.value :
              (\A j \in DOMAIN outcome.value : i <= j) => outcome.value[i] = 0

\* C7: a call with all refindx >= 1 whose argth is <= 0 first at layer i
\* warns and returns the partial profile: ds[1] = 0 and the entries of the
\* layers before i, nothing for layer i or later.
C7_DuctingPartial ==
    (InRayTrac /\ pc = "done" /\ AllRefindxValid /\ DuctLayers # {}) =>
        /\ outcome.kind = "returned"
        /\ warned
        /\ DOMAIN outcome.value = 1..(FirstDuctLayer - 1)
        /\ outcome.value[1] = 0

\* C8: a call with some refindx[i] < 1 warns and still hands a result value
\* (the partial profile, no layer computed) back to the caller.
C8_InvalidIndexResult ==
    (InRayTrac /\ pc = "done" /\ ~AllRefindxValid) =>
        /\ warned
        /\ outcome.kind = "returned"

\* the local names bound when the routine is left at a line
RayTracBound(line) ==
    IF line \in {167, 169, 173} THEN {"deg2rad", "re", "ds", "nl"}
    ELSE IF line = 180 THEN {"deg2rad", "re", "ds", "nl", "theta0"}
    ELSE IF line = 185
    THEN {"deg2rad", "re", "ds", "nl", "theta0", "rs", "costh0", "sina", "a0"}
    ELSE {"deg2rad", "re", "ds", "nl", "theta0", "rs", "costh0", "sina", "a0",
          "phil", "taul", "rl", "tanthl"}

LogicalOr(a, b) == (a # 0) \/ (b # 0)

\* the condition of line 192 for the entries prev = refindx[i - 1] and
\* cur = refindx[i], both given as (n - 1) * RefScale.  It is a chained
\* comparison: refindx[i] == L1 and L1 == L2 and L2 == 1.0, with
\* L1 = np.logical_or(refindx[i - 1], refindx[i]) and
\* L2 = np.logical_or(1.0, refindx[i - 1])
RefbarIsMean(prev, cur) ==
    LET L1 == BoolNum(LogicalOr(RefScale + prev, RefScale + cur))
        L2 == BoolNum(LogicalOr(RefScale, RefScale + prev))
    IN  /\ RefScale + cur = L1 * RefScale
        /\ L1 = L2
        /\ L2 = 1

\* the layers of lines 190-229 whose two refractive indices are in refindx
RefbarLayers ==
    {i \in arange(2, PyLen(args.z)) :
        InRange(args.refindx, i - 1) /\ InRange(args.refindx, i)}

expmax == 125

FrqVals == {22, 50}

TauVals == {0, 60, 125}

\* tauprof as lines 390 and 393-398 build it: zeros, then the running sum
\* of taulay over the levels of the loop
RECURSIVE TauProf(_, _)
TauProf(taulay, i) ==
    IF i <= 1 \/ ~InRange(taulay, i) THEN 0
    ELSE TauProf(taulay, i - 1) + taulay[i]

\* the total optical depth the loop accumulates for a profile
TauTotal(taulay) ==
    LET top == CHOOSE i \in DOMAIN taulay : \A j \in DOMAIN taulay : j <= i
    IN  TauProf(taulay, top)

\* the test of line 403 is false: the branch of lines 409-411 is taken
Saturated(tau) == ~(tau < expmax)

\* the whole routine.  Line 392 stores into boft, a name that is bound
\* nowhere in the routine or the module: after its right-hand side
\* tk2b_mod(hvk, tk[1]) is evaluated the store raises NameError
planck_xxx(frq, tk, taulay) ==
    IF ~InRange(tk, 1) THEN Raised("IndexError", 392)
    ELSE Raised("NameError", 392)

planck_call(frq, tk, taulay) ==
    /\ pc' = "done"
    /\ routine' = "planck_xxx"
    /\ args' = [frq |-> frq, tk |-> tk, taulay |-> taulay]
    /\ locals' = [tauprof |-> Zeros(taulay), boftatm |-> Zeros(taulay)]
    /\ outcome' = planck_xxx(frq, tk, taulay)
    /\ warned' = FALSE

\* the calls of planck_xxx explored: profiles of 1..MaxLen levels
planck_calls ==
    /\ pc = "idle"
    /\ UNCHANGED absState
    /\ \E n \in 1..MaxLen :
         \E tk \in PyArr(n, TkVals), taulay \in PyArr(n, TauVals), frq \in FrqVals :
           planck_call(frq, tk, taulay)

InPlanck == routine = "planck_xxx"

\* C9: a call whose total optical depth is >= 125 returns bakgrnd = 0 and
\* boftmr = boftotl = boftatm[N]; the returned tuple is (boftotl, boftatm,
\* boftmr, tauprof, hvk, boft, bakgrnd).
C9_SaturatedBranch ==
    (InPlanck /\ pc = "done" /\ Saturated(TauTotal(args.taulay))) =>
        /\ outcome.kind = "returned"
        /\ LET boftotl == outcome.value[1]
               boftatm == outcome.value[2]
               boftmr == outcome.value[3]
               bakgrnd == outcome.value[7]
               N == CHOOSE i \in DOMAIN boftatm : \A j \in DOMAIN boftatm : j <= i
           IN  /\ bakgrnd = 0
               /\ boftmr = boftatm[N]
               /\ boftotl = boftatm[N]

\* C10: every call returns tauprof with a first entry of 0 and
\* tauprof[i] = tauprof[i-1] + taulay[i] at every later level.
C10_TauProfCumulative ==
    (InPlanck /\ pc = "done") =>
        /\ outcome.kind = "returned"
        /\ LET tauprof == outcome.value[4]
           IN  \A i \in DOMAIN tauprof :
                  IF \A j \in DOMAIN tauprof : i <= j
                  THEN tauprof[i] = 0
                  ELSE tauprof[i] = tauprof[i - 1] + args.taulay[i]

(***************************************************************************)
(* The division of planck_xxx (rte.py 403-407) and cld_tmr_xxx (278-321).  *)
(***************************************************************************)
\* 1 - exp(-tau) is 0 exactly when tau is 0
DivisorIsZero(tau) == tau = 0

NonNegative(taulay) == \A i \in DOMAIN taulay : taulay[i] >= 0

CldTauVals == {0, 125, 126}

\* the test of line 313: the cloud depth is treated as infinite
CldInfinite(taucld) == taucld > expmax

\* the whole routine, on indices inside the profile; the radiance handed to
\* bright_xxx is held as the branch that produced it
cld_tmr_xxx(ibase, itop, tauprof) ==
    IF tauprof[ibase] > expmax THEN ReturnedNone(307)
    ELSE LET taucld == tauprof[itop] - tauprof[ibase]
         IN  Returned([branch |-> IF CldInfinite(taucld) THEN "infinite" ELSE "divided",
                       taucld |-> taucld,
                       divisor_zero |-> ~CldInfinite(taucld) /\ DivisorIsZero(taucld)], 321)

cld_tmr_call(ibase, itop, tauprof) ==
    /\ pc' = "done"
    /\ routine' = "cld_tmr_xxx"
    /\ args' = [ibase |-> ibase, itop |-> itop, tauprof |-> tauprof]
    /\ locals' = <<>>
    /\ outcome' = cld_tmr_xxx(ibase, itop, tauprof)
    /\ warned' = (tauprof[ibase] > expmax)

\* the calls of cld_tmr_xxx explored: profiles of 2..MaxLen levels
cld_tmr_calls ==
    /\ pc = "idle"
    /\ UNCHANGED absState
    /\ \E n \in 2..MaxLen :
         \E tauprof \in PyArr(n, CldTauVals), ibase \in 0..(n - 1), itop \in 0..(n - 1) :
           cld_tmr_call(ibase, itop, tauprof)

InCldTmr == pc = "done" /\ routine = "cld_tmr_xxx"

\* C20: cld_tmr_xxx treats a cloud depth t as infinite exactly when
\* planck_xxx treats a total depth t as saturated, t = 125 included.
C20_SameCeilingGuard ==
    (InCldTmr /\ outcome.kind = "returned")
        => (outcome.value.branch = "infinite" <=> Saturated(outcome.value.taucld))

(***************************************************************************)
(* The model selector (absmodel.py 14-31).                                 *)
(* AbsModel defines "model" as a property; the four absorption classes     *)
(* inherit it.  The routines read the attribute on the class               *)
(* (LiqAbsModel.model, ...), which is an ordinary class-attribute lookup   *)
(* along the base classes.  An attribute holds the property object, a      *)
(* string, or an object that is not a string.                              *)
(***************************************************************************)
SubClasses == {"LiqAbsModel", "N2AbsModel", "H2OAbsModel", "O2AbsModel"}

Classes == {"AbsModel"} \cup SubClasses

\* the identifiers some routine of absmodel.py selects a formula for
ModelNames == {"rose98", "rose03", "rose16", "rose17", "rose18",
               "rose19", "rose20", "rose19sd", "rose20sd"}

\* the values assigned: an identifier of each generation, an unknown name,
\* the empty string and an object that is not a string
AssignVals == {"rose98", "rose16", "rose20sd", "not_a_model", "", "<non-str>"}

\* the classes whose instances are assigned to
InstClasses == {"H2OAbsModel", "O2AbsModel"}

\* the class dictionaries once the module is imported: the property on
\* AbsModel, nothing on the subclasses
ClassesAtImport ==
    [c \in Classes |-> IF c = "AbsModel" THEN "<property>" ELSE "<absent>"]

\* no instance has been assigned to
NoInstance == [cls |-> "none", underscore |-> "", own |-> "<absent>"]

\* isinstance(v, str)
IsStr(v) == v \notin {"<property>", "<non-str>"}

\* the value of Cls.model: the class's own attribute, else the one of AbsModel
ClassAttr(cm, cls) == IF cm[cls] # "<absent>" THEN cm[cls] ELSE cm["AbsModel"]

\* the test of line 28: model and isinstance(model, str)
SetterAccepts(v) == v # "" /\ IsStr(v)

\* the statement "Cls.model = v" (the documented usage, absmodel.py 195):
\* it binds the class attribute and does not go through the property
class_setattr(cls, v) ==
    /\ pc' = "done"
    /\ routine' = "class_setattr"
    /\ args' = [cls |-> cls, value |-> v]
    /\ locals' = <<>>
    /\ outcome' = ReturnedNone(195)
    /\ warned' = FALSE
    /\ clsModel' = [clsModel EXCEPT ![cls] = v]
    /\ lastAssigned' = v
    /\ nassign' = nassign + 1
    /\ UNCHANGED <<instModel, llLoaded>>

\* the statement "Cls().model = v" on a new instance: the setter of lines
\* 26-31 runs when the class lookup still finds the property, otherwise the
\* value lands in the instance dictionary
instance_setattr(cls, v) ==
    /\ pc' = "done"
    /\ routine' = "instance_setattr"
    /\ args' = [cls |-> cls, value |-> v]
    /\ locals' = <<>>
    /\ warned' = FALSE
    /\ nassign' = nassign + 1
    /\ IF ClassAttr(clsModel, cls) = "<property>"
       THEN IF SetterAccepts(v)
            THEN /\ instModel' = [cls |-> cls, underscore |-> v, own |-> "<absent>"]
                 /\ lastAssigned' = v
                 /\ outcome' = ReturnedNone(29)
            ELSE /\ instModel' = [cls |-> cls, underscore |-> "", own |-> "<absent>"]
                 /\ outcome' = Raised("ValueError", 31)
                 /\ UNCHANGED lastAssigned
       ELSE /\ instModel' = [cls |-> cls, underscore |-> "", own |-> v]
            /\ lastAssigned' = v
            /\ outcome' = ReturnedNone(195)
    /\ UNCHANGED <<clsModel, llLoaded>>

class_assignments ==
    /\ pc = "idle"
    /\ nassign < MaxAssign
    /\ \E cls \in Classes, v \in AssignVals : class_setattr(cls, v)

instance_assignments ==
    /\ pc = "idle"
    /\ nassign < MaxAssign
    /\ \E cls \in InstClasses, v \in AssignVals : instance_setattr(cls, v)

\* H2OAbsModel.h2oll = import_lineshape(...) and the same for O2AbsModel.o2ll
\* (absmodel.py 196): the line tables are attached to the classes
load_line_tables ==
    /\ pc = "idle"
    /\ ~llLoaded
    /\ llLoaded' = TRUE
    /\ UNCHANGED <<pc, routine, args, locals, outcome, warned,
                   clsModel, instModel, lastAssigned, nassign>>

\* variant: a routine leaves the classes as they were at import
AfterCall_resets_selector(cm, im, ll) ==
    [clsModel |-> ClassesAtImport, instModel |-> im, llLoaded |-> ll]

\* no routine assigns a "model" attribute or a line table
AfterCall(cm, im, ll) == [clsModel |-> cm, instModel |-> im, llLoaded |-> ll]

\* a routine has run to its end: the state of the classes it leaves behind
call_frame ==
    /\ clsModel' = AfterCall(clsModel, instModel, llLoaded).clsModel
    /\ instModel' = AfterCall(clsModel, instModel, llLoaded).instModel
    /\ llLoaded' = AfterCall(clsModel, instModel, llLoaded).llLoaded
    /\ UNCHANGED <<lastAssigned, nassign>>

(***************************************************************************)
(* liquid_water_absorption (absmodel.py 39-84), ab_liq (rte.py 519-557),   *)
(* n2_absorption (absmodel.py 92-133).                                     *)
(* The absorption handed back is held as the formula that produced it:     *)
(* "0" is the constant 0 of the early return.                              *)
(***************************************************************************)
WaterVals == {-1, 0, 2}

FreqVals == {22, 90}

TempVals == {280}

PresVals == {1000}

\* an absorption value: the formula and the arguments it was computed from
AbsValue(formula, a, b, c) == [formula |-> formula, a |-> a, b |-> b, c |-> c]

\* the identifiers of lines 67 and 75
LiqDebye == {"rose03", "rose98"}

LiqDilec12 == {"rose17", "rose16", "rose19", "rose19sd"}

\* variant: the selector is dispatched on before the water test
liquid_water_absorption_dispatch_first(sel, water, freq, temp, np_has_complex) ==
    IF sel \in LiqDebye
    THEN IF water <= 0 THEN Returned(AbsValue("0", water, freq, temp), 65)
         ELSE IF np_has_complex THEN Returned(AbsValue("debye", water, freq, temp), 84)
         ELSE Raised("AttributeError", 74)
    ELSE IF sel \in LiqDilec12
    THEN IF water <= 0 THEN Returned(AbsValue("0", water, freq, temp), 65)
         ELSE Returned(AbsValue("dilec12", water, freq, temp), 84)
    ELSE Raised("ValueError", 78)

\* variant: the else branch falls back to the newest formula
liquid_water_absorption_default_formula(sel, water, freq, temp, np_has_complex) ==
    IF water <= 0 THEN Returned(AbsValue("0", water, freq, temp), 65)
    ELSE IF sel \in LiqDebye
    THEN IF np_has_complex THEN Returned(AbsValue("debye", water, freq, temp), 84)
         ELSE Raised("AttributeError", 74)
    ELSE Returned(AbsValue("dilec12", water, freq, temp), 84)

\* the whole routine; sel is the value of LiqAbsModel.model.  np.complex
\* (line 74) exists in some numpy releases and not in others
liquid_water_absorption(sel, water, freq, temp, np_has_complex) ==
    IF water <= 0 THEN Returned(AbsValue("0", water, freq, temp), 65)
    ELSE IF sel \in LiqDebye
    THEN IF np_has_complex THEN Returned(AbsValue("debye", water, freq, temp), 84)
         ELSE Raised("AttributeError", 74)
    ELSE IF sel \in LiqDilec12
    THEN Returned(AbsValue("dilec12", water, freq, temp), 84)
    ELSE Raised("ValueError", 78)

liquid_call(water, freq, temp, np_has_complex) ==
    /\ pc' = "done"
    /\ routine' = "liquid_water_absorption"
    /\ args' = [sel |-> ClassAttr(clsModel, "LiqAbsModel"),
                water |-> water, freq |-> freq, temp |-> temp]
    /\ locals' = [computed |-> {}]
    /\ outcome' = liquid_water_absorption(ClassAttr(clsModel, "LiqAbsModel"),
                                          water, freq, temp, np_has_complex)
    /\ warned' = FALSE
    /\ call_frame

liquid_calls ==
    /\ pc = "idle"
    /\ \E water \in WaterVals, freq \in FreqVals, temp \in TempVals :
         \E np_has_complex \in BOOLEAN :
           liquid_call(water, freq, temp, np_has_complex)

InLiquid == pc = "done" /\ routine = "liquid_water_absorption"

InAbLiq == pc = "done" /\ routine = "ab_liq"

\* C12: for a liquid water density <= 0, liquid_water_absorption and ab_liq
\* return the constant 0 and raise nothing, whatever the frequency, the
\* temperature and the selector.
C12_NoWaterNoAbsorption ==
    ((InLiquid \/ InAbLiq) /\ args.water <= 0)
        => (outcome.kind = "returned" /\ outcome.value.formula = "0")

\* negative water under a selector no branch knows, and 0 came back
C12_Witness ==
    /\ InLiquid
    /\ args.water < 0
    /\ args.sel = "not_a_model"
    /\ outcome.kind = "returned"
    /\ outcome.value.formula = "0"

\* RTEquation.ab_liq: the same early return, then the formula of lines
\* 546-555, which reads no selector
ab_liq(water, freq, temp) ==
    IF water <= 0 THEN Returned(AbsValue("0", water, freq, temp), 545)
    ELSE Returned(AbsValue("debye", water, freq, temp), 557)

ab_liq_call(water, freq, temp) ==
    /\ pc' = "done"
    /\ routine' = "ab_liq"
    /\ args' = [water |-> water, freq |-> freq, temp |-> temp]
    /\ locals' = [computed |-> {}]
    /\ outcome' = ab_liq(water, freq, temp)
    /\ warned' = FALSE
    /\ call_frame

ab_liq_calls ==
    /\ pc = "idle"
    /\ \E water \in WaterVals, freq \in FreqVals, temp \in TempVals :
         ab_liq_call(water, freq, temp)

\* the coefficient set (l, m, n) of lines 117-127 selected by the value of
\* N2AbsModel.model; "none" when the else branch raises
N2Family(sel) ==
    IF sel \in {"rose16", "rose17", "rose18", "rose19", "rose19sd"} THEN "6.5e-14,3.6,1.34"
    ELSE IF sel \in {"rose20", "rose20sd"} THEN "9.95e-14,3.22,1"
    ELSE IF sel = "rose03" THEN "6.5e-14,3.6,1.29"
    ELSE IF sel \in {"rose98"} THEN "6.4e-14,3.55,1"
    ELSE "none"

\* the whole routine; th and fdepen of lines 115-116 are computed first
n2_absorption(sel, t, p, f) ==
    IF N2Family(sel) = "none" THEN Raised("ValueError", 127)
    ELSE Returned(AbsValue(N2Family(sel), t, p, f), 133)

n2_call(t, p, f) ==
    /\ pc' = "done"
    /\ routine' = "n2_absorption"
    /\ args' = [sel |-> ClassAttr(clsModel, "N2AbsModel"), t |-> t, p |-> p, f |-> f]
    /\ locals' = [computed |-> {"th", "fdepen"}]
    /\ outcome' = n2_absorption(ClassAttr(clsModel, "N2AbsModel"), t, p, f)
    /\ warned' = FALSE
    /\ call_frame

n2_calls ==
    /\ pc = "idle"
    /\ \E t \in TempVals, p \in PresVals, f \in FreqVals : n2_call(t, p, f)

InN2 == pc = "done" /\ routine = "n2_absorption"

\* the selector read by the call matches no branch of the routine
UnrecognizedSelector ==
    \/ InLiquid /\ args.sel \notin (LiqDebye \cup LiqDilec12)
    \/ InN2 /\ N2Family(args.sel) = "none"

\* C13 as stated: with an unrecognized selector liquid_water_absorption and
\* n2_absorption raise for every input, water <= 0 included, before any
\* numeric work.
C13_AsStated ==
    UnrecognizedSelector
        => (outcome.kind = "raised" /\ outcome.exc = "ValueError"
            /\ locals.computed = {})

\* C13 amended: with an unrecognized selector n2_absorption raises ValueError
\* for every input with a non-zero temperature, and liquid_water_absorption
\* raises ValueError for every input with water > 0; neither returns a value
\* of a default formula.
C13_UnknownSelectorRaises ==
    (UnrecognizedSelector /\ (InLiquid => args.water > 0))
        => (outcome.kind = "raised" /\ outcome.exc = "ValueError"
            /\ outcome.line = (IF InLiquid THEN 78 ELSE 127))

\* liquid water present under a selector no branch knows: ValueError
C13_Witness ==
    /\ InLiquid
    /\ args.water > 0
    /\ args.sel = "not_a_model"
    /\ outcome.kind = "raised"
    /\ outcome.exc = "ValueError"

(***************************************************************************)
(* h2o_rosen19_sd (absmodel.py 154-363).                                   *)
(* The inputs are numpy scalars with vx > 0, so the vapour density rho of  *)
(* line 215 has the sign of ekpa.  The line table is the class attribute   *)
(* h2oll; the absorption handed back is held as the formulas that produced *)
(* it.                                                                     *)
(***************************************************************************)
EkpaVals == {-1, 0, 2}

\* the test of line 218, "rho.any() <= 0.0": rho.any() is a boolean, and a
\* boolean is <= 0.0 exactly when it is False
RhoTest(rho) == ~(rho # 0)

\* str.startswith(('rose19sd', 'rose20sd')) of line 245, on the names in use
H2OSd == {"rose19sd", "rose20sd"}

\* the line-shape branch of lines 245-350 and the continuum of lines 235-238
H2OLines(sel) ==
    IF sel \in H2OSd THEN "sd"
    ELSE IF sel \in {"rose16", "rose03", "rose17", "rose98"} THEN "vvw750"
    ELSE IF sel \in {"rose19", "rose20"} THEN "vvw750_shift"
    ELSE IF sel = "rose18" THEN "vvw750_r18"
    ELSE "none"

H2OContinuum(sel) == IF sel \in {"rose03", "rose98"} THEN "con98" ELSE "con_table"

\* the whole routine; sel is the value of H2OAbsModel.model, loaded says
\* whether the line table is attached, near_line whether the frequency meets
\* the condition of line 268 for some line
h2o_rosen19_sd(sel, loaded, ekpa, frq, near_line, np_has_complex) ==
    IF RhoTest(ekpa) THEN ReturnedNone(222)
    ELSE IF ~loaded THEN Raised("AttributeError", 233)
    ELSE IF ~IsStr(sel) THEN Raised("AttributeError", 245)
    ELSE IF H2OLines(sel) = "none" THEN Raised("UnboundLocalError", 359)
    ELSE IF H2OLines(sel) = "sd" /\ near_line /\ ~np_has_complex
    THEN Raised("AttributeError", 271)
    ELSE Returned([npp |-> AbsValue(H2OLines(sel), ekpa, frq, near_line),
                   ncpp |-> AbsValue(H2OContinuum(sel), ekpa, frq, near_line)], 363)

\* the statements executed before the routine is left
H2OComputed(out) ==
    IF out.line = 222 THEN {"rho"}
    ELSE IF out.line = 233 THEN {"rho", "pvap", "den"}
    ELSE IF out.line = 245 THEN {"rho", "pvap", "den", "table", "con"}
    ELSE {"rho", "pvap", "den", "table", "con", "lines"}

\* one line of the table at the frequency of the call: the widths width0
\* and width2 of lines 250-252 and the detunings |df[0]|, |df[1]| of lines
\* 260-261
H2OLine(width2, width0, adf0, adf1) ==
    [width2 |-> width2, width0 |-> width0, adf |-> <<adf0, adf1>>]

\* the condition of line 268 for side j (0: positive image, 1: negative)
SdQualifies(line, j) ==
    line.width2 > 0 /\ j = 0 /\ line.adf[j + 1] < 10 * line.width0

\* variant: the Lorentz term is added whatever the detuning
SideShape_no_cutoff(sel, line, j) ==
    IF sel \in H2OSd /\ SdQualifies(line, j) THEN "sd" ELSE "lorentz"

\* what side j of a line adds to res: the speed-dependent shape (lines
\* 268-283), the Lorentz term width0 / (df^2 + wsq) - base inside the cutoff
\* (lines 285-286, 309-310, 330-331, 349-350), or nothing
SideShape(sel, line, j) ==
    IF sel \in H2OSd /\ SdQualifies(line, j) THEN "sd"
    ELSE IF H2OLines(sel) = "vvw750"
    THEN IF line.adf[j + 1] <= 750 THEN "lorentz" ELSE "none"
    ELSE IF line.adf[j + 1] < 750 THEN "lorentz" ELSE "none"

\* the two sides of the line, once the loop over the lines has run
H2OSides(sel, line, out) ==
    IF "lines" \in H2OComputed(out) /\ out.line # 359
    THEN <<SideShape(sel, line, 0), SideShape(sel, line, 1)>>
    ELSE <<>>

h2o_call(ekpa, frq, line, np_has_complex) ==
    /\ pc' = "done"
    /\ routine' = "h2o_rosen19_sd"
    /\ args' = [sel |-> ClassAttr(clsModel, "H2OAbsModel"), ekpa |-> ekpa, frq |-> frq,
                line |-> line]
    /\ outcome' = h2o_rosen19_sd(ClassAttr(clsModel, "H2OAbsModel"), llLoaded,
                                 ekpa, frq, SdQualifies(line, 0), np_has_complex)
    /\ locals' = [computed |-> H2OComputed(outcome'),
                  sides |-> H2OSides(ClassAttr(clsModel, "H2OAbsModel"), line, outcome')]
    /\ warned' = FALSE
    /\ call_frame

\* a line far from the frequency of the call and one next to it
CoarseLines == {H2OLine(1, 1, 800, 800), H2OLine(1, 1, 5, 800)}

h2o_calls ==
    /\ pc = "idle"
    /\ \E ekpa \in EkpaVals, frq \in {22} :
         \E line \in CoarseLines, np_has_complex \in BOOLEAN :
           h2o_call(ekpa, frq, line, np_has_complex)

Width2Vals == {-1, 0, 1}

Width0Vals == {1, 100}

DetuningVals == {5, 750, 800}

\* the same calls over lines of every width and detuning
h2o_line_calls ==
    /\ pc = "idle"
    /\ \E ekpa \in EkpaVals, frq \in {22}, np_has_complex \in BOOLEAN :
         \E width2 \in Width2Vals, width0 \in Width0Vals :
           \E adf0 \in DetuningVals, adf1 \in DetuningVals :
             h2o_call(ekpa, frq, H2OLine(width2, width0, adf0, adf1), np_has_complex)

InH2O == pc = "done" /\ routine = "h2o_rosen19_sd"

\* C25 as stated: in the speed-dependent models, a side of a line that does
\* not take the speed-dependent shape (width2 <= 0, or the side does not
\* qualify) adds the plain Lorentz term, also beyond the 750 cutoff.
C25_AsStated ==
    (InH2O /\ outcome.kind = "returned" /\ args.sel \in H2OSd) =>
        \A j \in {0, 1} :
            ~SdQualifies(args.line, j) => locals.sides[j + 1] = "lorentz"

\* C25 amended: such a side adds the plain Lorentz term when |df| < 750 and
\* adds nothing when |df| >= 750.
C25_LorentzInsideCutoff ==
    (InH2O /\ outcome.kind = "returned" /\ args.sel \in H2OSd) =>
        \A j \in {0, 1} :
            ~SdQualifies(args.line, j)
               => locals.sides[j + 1] =
                     (IF args.line.adf[j + 1] < 750 THEN "lorentz" ELSE "none")

\* 'rose20sd', a line with width2 <= 0: Lorentz on the side at 5, nothing on
\* the side at 800
C25_Witness ==
    /\ InH2O
    /\ outcome.kind = "returned"
    /\ args.sel = "rose20sd"
    /\ args.line.width2 <= 0
    /\ args.line.adf = <<800, 5>>
    /\ locals.sides = <<"none", "lorentz">>

\* the error of an else branch of the selector dispatch (lines 78 and 127)
UnknownModelError == outcome.kind = "raised" /\ outcome.exc = "ValueError"

\* C27: every identifier for which h2o_rosen19_sd selects a line-shape
\* branch is accepted by n2_absorption and, for water > 0, by
\* liquid_water_absorption: neither ends in the unknown-model error.
C27_SameIdentifiers ==
    /\ (InN2 /\ H2OLines(args.sel) # "none") => ~UnknownModelError
    /\ (InLiquid /\ args.water > 0 /\ H2OLines(args.sel) # "none")
          => ~UnknownModelError

\* C14: h2o_rosen19_sd returns without a result whenever the vapour density
\* is <= 0 (zero and negative alike) and returns the pair only when it is > 0.
C14_NoVapourNoOp ==
    InH2O => /\ (args.ekpa <= 0 => outcome.kind = "returned_none")
             /\ (outcome.kind = "returned" => args.ekpa > 0)

(***************************************************************************)
(* o2abs_rosen18 (absmodel.py 384-502), o2abs_rosen19 (504-662).           *)
(* The dry-air pressure presda is positive, so o2abs has the sign of the   *)
(* line sum summ; the sum over the line table is an input.  o2abs is held  *)
(* in thousandths.                                                         *)
(***************************************************************************)
SummVals == {-2, 0, 3}

O2Scale == 1000

Max0(v) == IF v > 0 THEN v ELSE 0

\* variant: the clamp is applied to every selector
Clamp_every_selector(sel, o2abs) == Max0(o2abs)

\* lines 631-632: o2abs = np.maximum(o2abs, 0.0) unless the model is rose98
Clamp(sel, o2abs) == IF sel # "rose98" THEN Max0(o2abs) ELSE o2abs

\* lines 633-634: the factor 1.004 of rose20 and rose20sd
Scale1004(sel, o2abs) ==
    IF sel \in {"rose20", "rose20sd"} THEN (1004 * Max0(o2abs)) \div 1000 ELSE o2abs

O2Legacy == {"rose03", "rose16", "rose17", "rose18", "rose98"}

\* the loop of lines 592-625 that builds the line sum
O2Lines(sel) ==
    IF sel \in {"rose03", "rose98"} THEN "first_order_dens"
    ELSE IF sel \in {"rose17", "rose18"} THEN "first_order"
    ELSE "second_order"

\* the number of lines of the table attached as o2ll (line 591)
O2NLines == 3

\* variant: no special case for the first line
O2Width_every_line_den(sel, k) == "den"

\* the density term that multiplies w300[k] in the width df of line k
\* (lines 592-613): dens for the first line of rose03 and rose98, else den
O2Width(sel, k) ==
    IF sel \in {"rose03", "rose98"}
    THEN IF k = 0 THEN "dens" ELSE "den"
    ELSE "den"

\* the whole routine; sel is the value of O2AbsModel.model, n2sel the value of
\* N2AbsModel.model read by the call of line 656
o2abs_rosen19(sel, n2sel, loaded, summ, frq) ==
    IF ~loaded THEN Raised("AttributeError", 571)
    ELSE IF sel \in O2Legacy /\ n2_absorption(n2sel, 280, 1000, frq).kind = "raised"
    THEN n2_absorption(n2sel, 280, 1000, frq)
    ELSE Returned([npp |-> Scale1004(sel, Clamp(sel, summ * O2Scale)),
                   lines |-> O2Lines(sel),
                   widths |-> [k \in 0..(O2NLines - 1) |-> O2Width(sel, k)],
                   n2 |-> IF sel \in O2Legacy THEN N2Family(n2sel) ELSE "none"], 662)

o2abs_rosen19_call(summ, frq) ==
    /\ pc' = "done"
    /\ routine' = "o2abs_rosen19"
    /\ args' = [sel |-> ClassAttr(clsModel, "O2AbsModel"),
                n2sel |-> ClassAttr(clsModel, "N2AbsModel"),
                summ |-> summ, frq |-> frq]
    /\ outcome' = o2abs_rosen19(ClassAttr(clsModel, "O2AbsModel"),
                                ClassAttr(clsModel, "N2AbsModel"), llLoaded, summ, frq)
    /\ locals' = [computed |-> IF outcome'.line = 571 THEN {"th"}
                               ELSE {"th", "table", "den", "summ", "o2abs", "ncpp"}]
    /\ warned' = FALSE
    /\ call_frame

\* the whole routine: no selector is read, the clamp of line 479 is unconditional
o2abs_rosen18(loaded, summ, frq) ==
    IF ~loaded THEN Raised("AttributeError", 446)
    ELSE Returned([npp |-> Max0(summ * O2Scale), lines |-> "first_order", n2 |-> "none"], 502)

o2abs_rosen18_call(summ, frq) ==
    /\ pc' = "done"
    /\ routine' = "o2abs_rosen18"
    /\ args' = [summ |-> summ, frq |-> frq]
    /\ outcome' = o2abs_rosen18(llLoaded, summ, frq)
    /\ locals' = [computed |-> IF outcome'.line = 446 THEN {"th"}
                               ELSE {"th", "table", "den", "summ", "o2abs", "ncpp"}]
    /\ warned' = FALSE
    /\ call_frame

o2_calls ==
    /\ pc = "idle"
    /\ \E summ \in SummVals, frq \in {22} :
         \/ o2abs_rosen19_call(summ, frq)
         \/ o2abs_rosen18_call(summ, frq)

InO2Rosen19 == pc = "done" /\ routine = "o2abs_rosen19"

InO2Rosen18 == pc = "done" /\ routine = "o2abs_rosen18"

\* C11: with the selector empty or an unsupported string, o2abs_rosen19 and
\* h2o_rosen19_sd raise the unknown-model error before any numeric work or
\* line-table access, and never return absorption values.
C11_UnknownModelError ==
    ((InH2O \/ InO2Rosen19) /\ args.sel \in {"", "not_a_model"})
        => (outcome.kind = "raised" /\ outcome.exc = "ValueError"
            /\ locals.computed = {})

\* C24: in o2abs_rosen19 under 'rose03' and 'rose98' the width of the first
\* line is w300[0] times dens and the width of every other line w300[k]
\* times den; under every other selector every width, the first included,
\* is w300[k] times den and dens is not read.
C24_FirstLineWidth ==
    (InO2Rosen19 /\ outcome.kind = "returned") =>
        \A k \in DOMAIN outcome.value.widths :
            outcome.value.widths[k] =
                (IF args.sel \in {"rose03", "rose98"} /\ k = 0 THEN "dens" ELSE "den")

\* 'rose03': dens for the first line, den for the second
C24_Witness ==
    /\ InO2Rosen19
    /\ args.sel = "rose03"
    /\ outcome.kind = "returned"
    /\ outcome.value.widths[0] = "dens"
    /\ outcome.value.widths[1] = "den"

\* C15: o2abs_rosen19 clamps o2abs at zero for every selector but 'rose98', so
\* the returned npp is >= 0; under 'rose98' the clamp is skipped and a
\* negative line sum gives a negative npp; o2abs_rosen18 always clamps.
C15_ClampUnlessRose98 ==
    /\ (InO2Rosen19 /\ outcome.kind = "returned")
          => IF args.sel # "rose98" THEN outcome.value.npp >= 0
             ELSE outcome.value.npp = args.summ * O2Scale
    /\ (InO2Rosen18 /\ outcome.kind = "returned") => outcome.value.npp >= 0

\* 'rose98' with a negative line sum: a negative npp came back
C15_Witness ==
    /\ InO2Rosen19
    /\ args.sel = "rose98"
    /\ args.summ < 0
    /\ outcome.kind = "returned"
    /\ outcome.value.npp < 0

(***************************************************************************)
(* The selector across assignments and calls.                              *)
(***************************************************************************)
CoreRoutines == {"liquid_water_absorption", "n2_absorption", "h2o_rosen19_sd",
                 "o2abs_rosen18", "o2abs_rosen19", "ab_liq", "cld_tmr_xxx",
                 "refract_xxx", "ray_trac_xxx", "exp_int_xxx", "planck_xxx"}

Assignments == {"class_setattr", "instance_setattr"}

\* C16: after any assignments through any of the five classes or their
\* instances, the liquid, nitrogen, water-vapour and oxygen routines all read
\* the value last assigned, and the nitrogen term inside o2abs_rosen19 uses
\* the model of the oxygen routine.
C16_SingleSelector ==
    /\ lastAssigned # "<none>"
          => \A c \in SubClasses : ClassAttr(clsModel, c) = lastAssigned
    /\ InO2Rosen19 => args.n2sel = args.sel

\* C17: no step of a core routine, returning or raising, changes the model
\* attributes or the line tables, and the return to the caller keeps them
\* and leaves nothing else behind.
C17_RoutinesKeepSelector ==
    [][/\ routine' \in CoreRoutines
            => (clsModel' = clsModel /\ instModel' = instModel /\ llLoaded' = llLoaded)
       /\ (routine \in CoreRoutines /\ pc = "done" /\ pc' = "idle")
            => (/\ clsModel' = clsModel /\ instModel' = instModel /\ llLoaded' = llLoaded
                /\ args' = <<>> /\ locals' = <<>> /\ outcome' = Pending)]_vars

\* a routine raised under a selector assigned before, and the selector is
\* still the one assigned
C17_Witness ==
    /\ InN2
    /\ outcome.kind = "raised"
    /\ lastAssigned = "not_a_model"
    /\ ClassAttr(clsModel, "N2AbsModel") = "not_a_model"

\* C18: an assignment of the empty string or of a non-string raises
\* ValueError and leaves the selector unchanged, and an assignment of a name
\* outside the supported identifiers is rejected with an error too, the
\* form "AbsModel.model = value" included.
C18_AssignmentValidated ==
    [][(pc = "idle" /\ pc' = "done" /\ routine' \in Assignments
        /\ args'.value \notin ModelNames)
           => (/\ outcome'.kind = "raised"
               /\ args'.value \in {"", "<non-str>"} => outcome'.exc = "ValueError"
               /\ clsModel' = clsModel)]_vars

(***************************************************************************)
(* A call of h2o_rosen19_sd or o2abs_rosen19 next to a second thread.      *)
(* Every test on the selector is a new lookup of the class attribute       *)
(* (H2OAbsModel.model, O2AbsModel.model); a thread switch can fall between *)
(* any two of them.  The call is followed from one lookup to the next.     *)
(***************************************************************************)
\* the lines of o2abs_rosen19 that look the selector up on every path
O2SelectorReads == <<573, 577, 579, 581, 589, 592, 628, 631, 633, 650, 655>>

\* the lines of h2o_rosen19_sd that look the selector up on every path that
\* passes the test of line 218
H2OSelectorReads == <<225, 228, 235, 245>>

SelectorReads(r) == IF r = "o2abs_rosen19" THEN O2SelectorReads ELSE H2OSelectorReads

ReadClass(r) == IF r = "o2abs_rosen19" THEN "O2AbsModel" ELSE "H2OAbsModel"

ThreadedRoutines == {"o2abs_rosen19", "h2o_rosen19_sd"}

\* the values the second thread assigns
ThreadVals == {"rose98", "rose16", "rose20sd"}

\* the call starts: the statements before the first lookup
threaded_call(r) ==
    /\ pc = "idle"
    /\ llLoaded
    /\ pc' = "running"
    /\ routine' = r
    /\ args' = [sel |-> ClassAttr(clsModel, ReadClass(r))]
    /\ locals' = [reads |-> <<>>]
    /\ outcome' = Pending
    /\ warned' = FALSE
    /\ UNCHANGED absState

threaded_calls == \E r \in ThreadedRoutines : threaded_call(r)

\* the call reaches its next lookup of the selector and decides on the
\* value found there
selector_read ==
    /\ pc = "running"
    /\ Len(locals.reads) < Len(SelectorReads(routine))
    /\ locals' = [reads |-> Append(locals.reads, ClassAttr(clsModel, ReadClass(routine)))]
    /\ UNCHANGED <<pc, routine, args, outcome, warned>>
    /\ UNCHANGED absState

\* the statements after the last lookup
threaded_return ==
    /\ pc = "running"
    /\ Len(locals.reads) = Len(SelectorReads(routine))
    /\ pc' = "done"
    /\ outcome' = Returned([reads |-> locals.reads],
                           IF routine = "o2abs_rosen19" THEN 662 ELSE 363)
    /\ UNCHANGED <<routine, args, locals, warned>>
    /\ UNCHANGED absState

\* the second thread executes "AbsModel.model = v" while the call runs
thread_assigns ==
    /\ pc = "running"
    /\ nassign < MaxAssign
    /\ \E v \in ThreadVals :
         /\ clsModel' = [clsModel EXCEPT !["AbsModel"] = v]
         /\ lastAssigned' = v
    /\ nassign' = nassign + 1
    /\ UNCHANGED <<pc, routine, args, locals, outcome, warned, instModel, llLoaded>>

\* C26: a call of h2o_rosen19_sd or o2abs_rosen19 takes every one of its
\* model-dependent decisions from the selector value in force when it
\* started, whatever another thread assigns meanwhile.
C26_OneSelectorPerCall ==
    (pc \in {"running", "done"} /\ routine \in ThreadedRoutines) =>
        \A k \in DOMAIN locals.reads : locals.reads[k] = args.sel

(***************************************************************************)
(* The caller.                                                             *)
(***************************************************************************)
\* the caller has taken the outcome; nothing of the call is retained
ReturnToCaller ==
    /\ pc = "done"
    /\ pc' = "idle"
    /\ routine' = "none"
    /\ args' = <<>>
    /\ locals' = <<>>
    /\ outcome' = Pending
    /\ warned' = FALSE
    /\ UNCHANGED absState

Init ==
    /\ pc = "idle"
    /\ routine = "none"
    /\ args = <<>>
    /\ locals = <<>>
    /\ outcome = Pending
    /\ warned = FALSE
    /\ clsModel = ClassesAtImport
    /\ instModel = NoInstance
    /\ llLoaded = FALSE
    /\ lastAssigned = "<none>"
    /\ nassign = 0

Next ==
    \/ refract_calls
    \/ ray_trac_calls
    \/ exp_int_calls
    \/ planck_calls
    \/ cld_tmr_calls
    \/ ab_liq_calls
    \/ exp_int_layer
    \/ exp_int_return
    \/ ReturnToCaller

Spec == Init /\ [][Next]_vars

\* the absorption models: assignments to the selector and calls of the
\* routines that read it
NextAbs ==
    \/ class_assignments
    \/ instance_assignments
    \/ load_line_tables
    \/ liquid_calls
    \/ ab_liq_calls
    \/ n2_calls
    \/ h2o_calls
    \/ o2_calls
    \/ ReturnToCaller

SpecAbs == Init /\ [][NextAbs]_vars

\* the documented usage (absmodel.py 195-202): the selector is assigned on
\* AbsModel, with every identifier the routines know and the values of
\* AssignVals
documented_assignments ==
    /\ pc = "idle"
    /\ nassign < MaxAssign
    /\ \E v \in ModelNames \cup AssignVals : class_setattr("AbsModel", v)

NextDoc ==
    \/ documented_assignments
    \/ load_line_tables
    \/ liquid_calls
    \/ n2_calls
    \/ h2o_line_calls
    \/ o2_calls
    \/ ReturnToCaller

SpecDoc == Init /\ [][NextDoc]_vars

\* the documented usage with a second thread that reassigns the selector
NextThreads ==
    \/ documented_assignments
    \/ load_line_tables
    \/ threaded_calls
    \/ selector_read
    \/ threaded_return
    \/ thread_assigns
    \/ ReturnToCaller

SpecThreads == Init /\ [][NextThreads]_vars

====
